---- MODULE Spec2Model ----
(***************************************************************************)
(* GPX Trail Flyer: the animation driver and the photo trigger engine of   *)
(* the Index page, with the parts of GPXParser, AnimationControls,         *)
(* PhotoViewModal and TrailMap they depend on.                             *)
(*                                                                         *)
(* React state cells are the variables.  A handler or callback (a user     *)
(* event, a requestAnimationFrame callback, a setTimeout callback) is one  *)
(* action; it leaves in pending the dependencies it changed.  Render is    *)
(* one render of Index: the effects with a changed dependency run on the   *)
(* state of that render, and their state updates are the next pending.     *)
(* React renders to completion before the next event is served, so no      *)
(* handler or callback runs while pending is not empty.                    *)
(* Times are Date.now() milliseconds, positions are percent.  An optional  *)
(* value (null / undefined / NaN) is a sequence of length <= 1.            *)
(***************************************************************************)
EXTENDS Integers, Sequences, FiniteSets, TLC

VARIABLES gpxData, isPlaying, currentPosition, startTime, autoPhotoView,
          isAutoPhotoOpen, shownPhotosInSession, photoPositions, photos,
          now, rafPending, animationFrame, timers,
          firedEvents, passedOver, virtualStart, pending,
          activePhotoId, isPhotoViewOpen, viewPhoto, modalTimers,
          arrivals, arrivalDue

(* The photo arrival logic of TrailMap: its state cells, the setTimeout
   callbacks in flight, the arrivals started since the last close, and
   whether its effect has a changed dependency.  TrailMap gets
   currentPosition and gpxData as props; the arrival logic is specified on
   its own, and the other specifications leave it as it is mounted. *)
mapVars == <<activePhotoId, isPhotoViewOpen, viewPhoto, modalTimers,
             arrivals, arrivalDue>>

vars == <<gpxData, isPlaying, currentPosition, startTime, autoPhotoView,
          isAutoPhotoOpen, shownPhotosInSession, photoPositions, photos,
          now, rafPending, animationFrame, timers,
          firedEvents, passedOver, virtualStart, pending, mapVars>>

(* useState(null), useState(false) of TrailMap *)
InitTrailMap ==
  /\ activePhotoId = <<>>
  /\ isPhotoViewOpen = FALSE
  /\ viewPhoto = <<>>
  /\ modalTimers = <<>>
  /\ arrivals = <<>>
  /\ arrivalDue = FALSE

----------------------------------------------------------------------------
(* Program constants *)

animationDuration == 10000

tolerance == 1

autoCloseDelay == 3000

sliderMax == 100

sliderMin == 0

(* Bounds of the model *)

MaxClockSteps == 3

FramePercent == 26

MaxTimers == 2

MaxDerivePhotos == 3

MaxIndexPoints == 7

(* one percent of the traversal, in ms; the clock moves in frames of
   FramePercent percent so that every computed position is a whole percent *)
PercentMs == animationDuration \div 100

FrameMs == FramePercent * PercentMs

(* Date.now() at page load: any value larger than the duration, so that a
   start time is never 0 (which the loop's !startTime would take for null) *)
Epoch == 2 * animationDuration

Min(a, b) == IF a < b THEN a ELSE b

Max(a, b) == IF a > b THEN a ELSE b

Abs(a) == IF a < 0 THEN -a ELSE a

----------------------------------------------------------------------------
(* GPX documents as fast-xml-parser hands them to parseGPX *)

(* the text of an attribute: the decimal text of a number, or a text that
   does not start with a number, such as "abc" *)
NumberText(n) == [numeric |-> TRUE, value |-> n]

OtherText == [numeric |-> FALSE, value |-> 0]

(* an absent or empty attribute is <<>>, and so is a missing ele or time
   child *)
Pt(la, lo) ==
  [lat |-> <<NumberText(la)>>, lon |-> <<NumberText(lo)>>, ele |-> <<>>, time |-> <<>>]

PtEle(la, lo, el) ==
  [lat |-> <<NumberText(la)>>, lon |-> <<NumberText(lo)>>,
   ele |-> <<NumberText(el)>>, time |-> <<>>]

PtTime(la, lo, t) ==
  [lat |-> <<NumberText(la)>>, lon |-> <<NumberText(lo)>>, ele |-> <<>>, time |-> <<t>>]

NoCoordPt == [lat |-> <<>>, lon |-> <<>>, ele |-> <<>>, time |-> <<>>]

Trk(segs) == [trkseg |-> segs]

(* every point of DocLine3 has an elevation; on DocLine5 the point before
   the last has none *)
DocLine3 ==
  [gpx |-> TRUE,
   trk |-> <<Trk(<<<<PtEle(0, 0, 100), PtEle(2, 0, 150)>>, <<PtEle(4, 0, 120)>>>>)>>]

DocLine5 ==
  [gpx |-> TRUE,
   trk |-> <<Trk(<<<<PtEle(0, 0, 100), NoCoordPt, PtEle(1, 0, 110), PtEle(2, 0, 120),
                     Pt(3, 0), PtEle(4, 0, 130)>>>>)>>]

DocNoRoot == [gpx |-> FALSE, trk |-> <<>>]

DocNoCoords == [gpx |-> TRUE, trk |-> <<Trk(<<<<NoCoordPt, NoCoordPt>>>>)>>]

(* one point every two percent of the track: the photos of PhotoClicks lie
   at 50% and at 48%, in the reverse of their insertion order, and a
   progress of 49 is within the tolerance of both *)
DocLine51 == [gpx |-> TRUE, trk |-> <<Trk(<<[k \in 1..51 |-> Pt(k - 23, 0)]>>)>>]

(* a track that keeps a single point *)
DocPoint1 == [gpx |-> TRUE, trk |-> <<Trk(<<<<NoCoordPt, Pt(3,0)>>>>)>>]

Docs == {DocLine3, DocLine5, DocPoint1, DocNoRoot, DocNoCoords}

(* the map clicks of the user that open the photo upload modal, in order:
   on DocLine3 both photos are nearest to the middle point (50%), on
   DocLine5 they lie at 75% and at 50% *)
PhotoClicks == <<<<3, 0>>, <<2, 0>>>>

(* pointer positions on the slider track, in percent of its length; the
   pointer can leave the track at both ends *)
SliderPointer == {-10, 49, 110}

----------------------------------------------------------------------------
(* GPXParser *)

(* A number of the program is <<n>>; NaN is <<>>; the infinities are
   written as the quotients they are.  The optional ele of a point is <<>>
   when undefined and <<number>> otherwise *)
NaN == <<>>

PosInfinity == <<1, 0>>

NegInfinity == <<-1, 0>>

parseFloat(text) == IF text.numeric THEN <<text.value>> ELSE NaN

(* arithmetic of the program's numbers *)
Minus(a, b) == IF a = NaN \/ b = NaN THEN NaN ELSE <<a[1] - b[1]>>

Plus(a, b) == IF a = NaN \/ b = NaN THEN NaN ELSE <<a[1] + b[1]>>

MathAbs(a) == IF a = NaN THEN NaN ELSE <<Abs(a[1])>>

(* The locals of parseTrack at its start.  totalDistance is the list of the
   calculateDistance(prevPoint, point) terms that were added to it, each
   written as the pair of the 0-based indices of the two points in points;
   prevPoint is the index of the point it refers to; null is <<>> *)
TrackStart ==
  [points |-> <<>>, totalDistance |-> <<>>,
   elevationGain |-> <<0>>, elevationLoss |-> <<0>>,
   prevPoint |-> <<>>, prevElevation |-> <<>>]

(* a distance step that also adds a term for the first point of the track *)
DistanceStepMutant(st, index) ==
  Append(st.totalDistance, <<IF st.prevPoint = <<>> THEN index ELSE st.prevPoint[1], index>>)

(* if (prevPoint) totalDistance += calculateDistance(prevPoint, point) *)
DistanceStep(st, index) ==
  IF st.prevPoint # <<>>
  THEN Append(st.totalDistance, <<st.prevPoint[1], index>>)
  ELSE st.totalDistance

(* the elevation changes; NaN > 0 is false *)
ElevationStep(st, point) ==
  IF point.ele # <<>> /\ st.prevElevation # <<>>
  THEN LET elevationDiff == Minus(point.ele[1], st.prevElevation[1])
       IN IF elevationDiff # NaN /\ elevationDiff[1] > 0
          THEN [gain |-> Plus(st.elevationGain, elevationDiff),
                loss |-> st.elevationLoss]
          ELSE [gain |-> st.elevationGain,
                loss |-> Plus(st.elevationLoss, MathAbs(elevationDiff))]
  ELSE [gain |-> st.elevationGain, loss |-> st.elevationLoss]

(* a test that also passes over the points without an elevation *)
SkippedMutant(trkpt) == trkpt.lat = <<>> \/ trkpt.lon = <<>> \/ trkpt.ele = <<>>

(* if (!trkpt["@_lat"] || !trkpt["@_lon"]) continue *)
Skipped(trkpt) == trkpt.lat = <<>> \/ trkpt.lon = <<>>

(* the body of the loop over the trkpts of a segment *)
PointStep(st, trkpt) ==
  IF Skipped(trkpt) THEN st
  ELSE LET point == [lat |-> parseFloat(trkpt.lat[1]),
                     lon |-> parseFloat(trkpt.lon[1]),
                     ele |-> IF trkpt.ele = <<>> THEN <<>>
                             ELSE <<parseFloat(trkpt.ele[1])>>,
                     time |-> trkpt.time]
           index == Len(st.points)
           elevation == ElevationStep(st, point)
       IN [points |-> Append(st.points, point),
           totalDistance |-> DistanceStep(st, index),
           elevationGain |-> elevation.gain,
           elevationLoss |-> elevation.loss,
           prevPoint |-> <<index>>,
           prevElevation |-> IF point.ele # <<>> THEN point.ele ELSE st.prevElevation]

(* for (const trkpt of trkpts): the locals st of parseTrack and the place i
   of the iterator; the locals when the loop is left *)
RECURSIVE SegmentLoop(_, _)
SegmentLoop(loop, trkpts) ==
  IF loop.i > Len(trkpts) THEN loop.st
  ELSE SegmentLoop([st |-> PointStep(loop.st, trkpts[loop.i]), i |-> loop.i + 1], trkpts)

ParseSegment(st, trkpts) == SegmentLoop([st |-> st, i |-> 1], trkpts)

(* for (const segment of segments): the locals after the first m segments *)
RECURSIVE ParseSegments(_, _)
ParseSegments(segments, m) ==
  IF m = 0 THEN TrackStart
  ELSE ParseSegment(ParseSegments(segments, m - 1), segments[m])

parseTrack(trk) ==
  LET st == ParseSegments(trk.trkseg, Len(trk.trkseg))
  IN [points |-> st.points, totalDistance |-> st.totalDistance,
      elevationGain |-> st.elevationGain, elevationLoss |-> st.elevationLoss]

RECURSIVE ParseTracks(_, _)
ParseTracks(trkArray, i) ==
  IF i > Len(trkArray) THEN <<>>
  ELSE LET track == parseTrack(trkArray[i])
       IN (IF Len(track.points) > 0 THEN <<track>> ELSE <<>>)
          \o ParseTracks(trkArray, i + 1)

(* minLat = Infinity, maxLat = -Infinity, minLon = Infinity, maxLon = -Infinity *)
NoBounds ==
  [minLat |-> PosInfinity, maxLat |-> NegInfinity,
   minLon |-> PosInfinity, maxLon |-> NegInfinity]

(* Math.min(bound, v) and Math.max(bound, v): NaN if either argument is *)
MathMin(bound, v) ==
  IF bound = NaN \/ v = NaN THEN NaN
  ELSE IF bound = PosInfinity THEN v
  ELSE <<Min(bound[1], v[1])>>

MathMax(bound, v) ==
  IF bound = NaN \/ v = NaN THEN NaN
  ELSE IF bound = NegInfinity THEN v
  ELSE <<Max(bound[1], v[1])>>

(* the four updates of the bounds for one point *)
ExtendBounds(bounds, point) ==
  [minLat |-> MathMin(bounds.minLat, point.lat), maxLat |-> MathMax(bounds.maxLat, point.lat),
   minLon |-> MathMin(bounds.minLon, point.lon), maxLon |-> MathMax(bounds.maxLon, point.lon)]

(* for (const point of track.points): the bounds and the place i of the
   iterator; the bounds when the loop is left *)
RECURSIVE BoundsLoop(_, _)
BoundsLoop(loop, points) ==
  IF loop.i > Len(points) THEN loop.bounds
  ELSE BoundsLoop([bounds |-> ExtendBounds(loop.bounds, points[loop.i]), i |-> loop.i + 1],
                  points)

(* the bounds after the first m pushed tracks, in the order of the pushes *)
RECURSIVE TracksBounds(_, _)
TracksBounds(tracks, m) ==
  IF m = 0 THEN NoBounds
  ELSE BoundsLoop([bounds |-> TracksBounds(tracks, m - 1), i |-> 1], tracks[m].points)

Bounds(tracks) == TracksBounds(tracks, Len(tracks))

(* threw: the 'Invalid GPX file format' error *)
parseGPX(doc) ==
  IF ~doc.gpx THEN [threw |-> TRUE, tracks |-> <<>>, bounds |-> NoBounds]
  ELSE LET tracks == ParseTracks(doc.trk, 1)
       IN [threw |-> FALSE, tracks |-> tracks, bounds |-> Bounds(tracks)]

----------------------------------------------------------------------------
(* Photo positions effect: nearest track point, index to percent, sort *)

(* Math.sqrt is monotone: the comparison of the distances is the comparison
   of their squares *)
Dist2(photo, point) ==
  IF point.lat = NaN \/ point.lon = NaN THEN NaN
  ELSE <<(photo.lat - point.lat[1]) * (photo.lat - point.lat[1])
         + (photo.lon - point.lon[1]) * (photo.lon - point.lon[1])>>

(* a test that lets an equally near point take the place of the closest *)
IsCloserMutant(d, best) == d # NaN /\ (best = <<>> \/ d[1] <= best[1])

(* distance < minDistance, minDistance = Infinity being best = <<>>; the
   distance to a point with a NaN coordinate is NaN and NaN < minDistance
   is false *)
IsCloser(d, best) == d # NaN /\ (best = <<>> \/ d[1] < best[1])

(* forEach scan from minDistance = Infinity, closestIndex = 0 (0-based, as
   in the source) *)
RECURSIVE ClosestScan(_, _, _, _, _)
ClosestScan(points, photo, i, best, closestIndex) ==
  IF i > Len(points) THEN closestIndex
  ELSE LET d == Dist2(photo, points[i])
       IN IF IsCloser(d, best)
          THEN ClosestScan(points, photo, i + 1, d, i - 1)
          ELSE ClosestScan(points, photo, i + 1, best, closestIndex)

ClosestIndex(points, photo) == ClosestScan(points, photo, 1, <<>>, 0)

(* a conversion that takes a single point for 0% *)
IndexToPositionMutant(closestIndex, length) ==
  IF length - 1 = 0 THEN <<0>>
  ELSE <<(closestIndex * 100) \div (length - 1)>>

(* (closestIndex / (length - 1)) * 100; 0/0 is NaN, written <<>> *)
IndexToPosition(closestIndex, length) ==
  IF length - 1 = 0 THEN <<>>
  ELSE <<(closestIndex * 100) \div (length - 1)>>

(* a comparator that also swaps equal positions *)
ComesAfterMutant(a, b) ==
  /\ a.position # <<>>
  /\ b.position # <<>>
  /\ a.position[1] - b.position[1] >= 0

(* comparator a.position - b.position > 0; a NaN result counts as 0 *)
ComesAfter(a, b) ==
  /\ a.position # <<>>
  /\ b.position # <<>>
  /\ a.position[1] - b.position[1] > 0

(* Array.prototype.sort is stable: insertion after the last element that
   does not come after x *)
RECURSIVE InsertSorted(_, _)
InsertSorted(sorted, x) ==
  IF sorted = <<>> THEN <<x>>
  ELSE LET last == sorted[Len(sorted)]
       IN IF ComesAfter(last, x)
          THEN Append(InsertSorted(SubSeq(sorted, 1, Len(sorted) - 1), x), last)
          ELSE Append(sorted, x)

RECURSIVE SortPositions(_, _)
SortPositions(positions, i) ==
  IF i = 0 THEN <<>>
  ELSE InsertSorted(SortPositions(positions, i - 1), positions[i])

DerivePhotoPositions(g) ==
  IF ~g.hasPhotos \/ Len(g.photos) = 0 \/ Len(g.tracks) = 0 THEN <<>>
  ELSE LET track == g.tracks[1]
           positions ==
             [k \in 1..Len(g.photos) |->
                [photo |-> g.photos[k],
                 position |-> IndexToPosition(ClosestIndex(track.points, g.photos[k]),
                                              Len(track.points))]]
       IN SortPositions(positions, Len(positions))

----------------------------------------------------------------------------
(* The React state of Index (and the photos cell of TrailMap) as one record,
   so that handlers and effects are functions from state to state *)

Cur ==
  [gpxData |-> gpxData, isPlaying |-> isPlaying,
   currentPosition |-> currentPosition, startTime |-> startTime,
   autoPhotoView |-> autoPhotoView, isAutoPhotoOpen |-> isAutoPhotoOpen,
   shownPhotosInSession |-> shownPhotosInSession,
   photoPositions |-> photoPositions, photos |-> photos,
   rafPending |-> rafPending, animationFrame |-> animationFrame,
   timers |-> timers, firedEvents |-> firedEvents, passedOver |-> passedOver]

NoData ==
  [loaded |-> FALSE, tracks |-> <<>>, bounds |-> NoBounds,
   hasPhotos |-> FALSE, photos |-> <<>>]

(* dependency cells compared by value (Object.is on a boolean or a number) *)
ValueDeps == {"isPlaying", "currentPosition", "startTime"}

(* the cells a handler changed: value cells that differ, and the object
   cells it assigned (a new object is a new identity whatever it holds) *)
Changed(old, new, assigned) ==
  {f \in ValueDeps : old[f] # new[f]} \cup assigned

----------------------------------------------------------------------------
(* Photo trigger effect *)

IsAtPosition(s, item) ==
  /\ item.position # <<>>
  /\ Abs(s.currentPosition - item.position[1]) <= tolerance

(* a trigger that forgets the session set *)
NotShownYetMutant(s, item) == TRUE

NotShownYet(s, item) == item.photo.id \notin s.shownPhotosInSession

(* a forward test that forgets the tolerance *)
IsMovingForwardMutant(s, item) ==
  /\ item.position # <<>>
  /\ s.currentPosition >= item.position[1]

IsMovingForward(s, item) ==
  /\ item.position # <<>>
  /\ s.currentPosition >= item.position[1] - tolerance

Matches(s, item) ==
  IsAtPosition(s, item) /\ NotShownYet(s, item) /\ IsMovingForward(s, item)

(* a search that returns the last match *)
PhotoToShowMutant(s) ==
  IF ~s.isPlaying \/ Len(s.photoPositions) = 0 THEN 0
  ELSE LET hits == {k \in 1..Len(s.photoPositions) : Matches(s, s.photoPositions[k])}
       IN IF hits = {} THEN 0
          ELSE CHOOSE k \in hits : \A j \in hits : k >= j

(* photoPositions.find: index of the first match, 0 for undefined *)
PhotoToShow(s) ==
  IF ~s.isPlaying \/ Len(s.photoPositions) = 0 THEN 0
  ELSE LET hits == {k \in 1..Len(s.photoPositions) : Matches(s, s.photoPositions[k])}
       IN IF hits = {} THEN 0
          ELSE CHOOSE k \in hits : \A j \in hits : k <= j

(* the state updates of the if (photoToShow) branch and its setTimeout,
   whose callback keeps the currentPosition of this render (superseded is
   history: a Reset or a track load has happened since the timer was set;
   passedOver is history: the ids of the other anchors that matched in an
   evaluation of this session) *)
TriggerUpdates(acc, render, k) ==
  LET item == render.photoPositions[k]
  IN [acc EXCEPT
        !.shownPhotosInSession = @ \cup {item.photo.id},
        !.autoPhotoView = <<item.photo>>,
        !.isAutoPhotoOpen = TRUE,
        !.isPlaying = FALSE,
        !.startTime = <<>>,
        !.timers = Append(@, [due |-> now + autoCloseDelay,
                              currentPosition |-> render.currentPosition,
                              superseded |-> FALSE]),
        !.firedEvents = Append(@, item.photo.id),
        !.passedOver = @ \cup ({render.photoPositions[j].photo.id :
                                  j \in {i \in 1..Len(render.photoPositions) :
                                           Matches(render, render.photoPositions[i])}}
                               \ {item.photo.id})]

----------------------------------------------------------------------------
(* Animation loop effect *)

Truthy(st) == st # <<>> /\ st[1] # 0

(* an effect without its cleanup *)
CancelFrameMutant(requests, handle) == requests

(* the cleanup of the previous run (cancelAnimationFrame) *)
CancelFrame(requests, handle) ==
  IF handle = <<>> THEN requests ELSE requests \ {handle[1]}

(* cleanup, then the body with the isPlaying and startTime of this render *)
AnimationEffect(acc, render) ==
  LET cancelled == CancelFrame(acc.rafPending, acc.animationFrame)
  IN IF ~render.isPlaying \/ ~Truthy(render.startTime)
     THEN [acc EXCEPT !.rafPending = cancelled, !.animationFrame = <<>>]
     ELSE LET frame == [startTime |-> render.startTime[1]]
          IN [acc EXCEPT !.rafPending = cancelled \cup {frame},
                         !.animationFrame = <<frame>>]

(* animate() without the Math.min *)
ProgressMutant(frameStart) ==
  ((now - frameStart) * 100) \div animationDuration

(* animate(): the progress a frame callback computes *)
Progress(frameStart) ==
  Min(((now - frameStart) * 100) \div animationDuration, 100)

----------------------------------------------------------------------------
(* Effects of gpxData *)

PhotoPositionsEffect(acc, render) ==
  [acc EXCEPT !.photoPositions = DerivePhotoPositions(render.gpxData)]

(* TrailMap: if (gpxData?.photos) setPhotos(gpxData.photos) *)
PhotosInitEffect(acc, render) ==
  IF render.gpxData.loaded /\ render.gpxData.hasPhotos
  THEN [acc EXCEPT !.photos = render.gpxData.photos]
  ELSE acc

----------------------------------------------------------------------------
(* One render: every effect with a changed dependency runs on the state of
   this render; their state updates make the next render *)

(* a dependency array without isPlaying *)
RunsTriggerMutant(ch) ==
  ch \cap {"currentPosition", "photoPositions", "shownPhotosInSession"} # {}

RunsTrigger(ch) ==
  ch \cap {"currentPosition", "photoPositions", "isPlaying", "shownPhotosInSession"} # {}

RunsAnimation(ch) == ch \cap {"isPlaying", "startTime", "currentPosition"} # {}

RunsGpx(ch) == "gpxData" \in ch

PassState(s, ch) ==
  LET k  == IF RunsTrigger(ch) THEN PhotoToShow(s) ELSE 0
      a1 == IF RunsGpx(ch) THEN PhotosInitEffect(PhotoPositionsEffect(s, s), s) ELSE s
      a2 == IF k # 0 THEN TriggerUpdates(a1, s, k) ELSE a1
  IN IF RunsAnimation(ch) THEN AnimationEffect(a2, s) ELSE a2

PassChanged(s, ch) ==
  LET k == IF RunsTrigger(ch) THEN PhotoToShow(s) ELSE 0
  IN (IF RunsGpx(ch) THEN {"photoPositions"} ELSE {})
     \cup (IF k # 0
           THEN {"shownPhotosInSession", "isPlaying"}
                \cup (IF s.startTime # <<>> THEN {"startTime"} ELSE {})
           ELSE {})

----------------------------------------------------------------------------
(* The state after a step: the React state, the dependencies left to render
   and, as history of the playthrough, the Play or Seek (its time t0 and its
   progress p) that the driver has been playing on without a stop since;
   resumed holds the progress at which an auto-resume found the driver,
   until the first Tick after it *)

Install(s, ev, ch) ==
  /\ gpxData' = s.gpxData
  /\ isPlaying' = s.isPlaying
  /\ currentPosition' = s.currentPosition
  /\ startTime' = s.startTime
  /\ autoPhotoView' = s.autoPhotoView
  /\ isAutoPhotoOpen' = s.isAutoPhotoOpen
  /\ shownPhotosInSession' = s.shownPhotosInSession
  /\ photoPositions' = s.photoPositions
  /\ photos' = s.photos
  /\ rafPending' = s.rafPending
  /\ animationFrame' = s.animationFrame
  /\ timers' = s.timers
  /\ firedEvents' = s.firedEvents
  /\ passedOver' = s.passedOver
  /\ virtualStart' =
       IF ~s.isPlaying \/ ev \in {"pause", "reset", "upload"} THEN <<>>
       ELSE IF ev \in {"play", "seek"}
            THEN <<[t0 |-> now, p |-> s.currentPosition, by |-> ev, resumed |-> <<>>]>>
       ELSE IF ev = "resume"
            THEN IF virtualStart = <<>>
                 THEN <<[t0 |-> now, p |-> currentPosition, by |-> ev,
                         resumed |-> <<currentPosition>>]>>
                 ELSE <<[virtualStart[1] EXCEPT !.resumed = <<currentPosition>>]>>
       ELSE IF ev = "tick" /\ virtualStart # <<>>
            THEN IF virtualStart[1].by = "resume" THEN <<>>
                 ELSE <<[virtualStart[1] EXCEPT !.resumed = <<>>]>>
       ELSE virtualStart
  /\ pending' = ch
  /\ now' = now
  /\ UNCHANGED mapVars

Settled == pending = {}

(* AnimationControls and TrailMap are rendered once a track is loaded; an
   open photo dialog is modal and takes the pointer from the page below *)
ControlsUsable == gpxData.loaded /\ ~isAutoPhotoOpen

(* a further trigger would put one more timer in flight than the model holds *)
TimerRoom == Len(timers) < MaxTimers

(* the Slider keeps the value it reports inside [min, max] *)
SliderValue(pointer) == Max(sliderMin, Min(pointer, sliderMax))

Supersede(ts) == [k \in 1..Len(ts) |-> [ts[k] EXCEPT !.superseded = TRUE]]

----------------------------------------------------------------------------
(* Handlers *)

UploadAccepted(doc) ==
  LET parsedData == parseGPX(doc)
  IN ~parsedData.threw /\ Len(parsedData.tracks) # 0

(* the toast of handleFileUpload *)
UploadToast(doc) ==
  LET parsedData == parseGPX(doc)
  IN IF parsedData.threw THEN [kind |-> "error", text |-> "Chyba pri nacitani GPX souboru"]
     ELSE IF Len(parsedData.tracks) = 0
          THEN [kind |-> "error", text |-> "Nepodarilo se najit zadne trasy"]
          ELSE [kind |-> "success", text |-> "Nahran GPX soubor"]

(* an upload that rewinds the driver before it looks at the parse *)
UploadStateMutant(s, doc) ==
  LET parsedData == parseGPX(doc)
      rewound == [s EXCEPT !.currentPosition = 0, !.isPlaying = FALSE]
  IN IF parsedData.threw \/ Len(parsedData.tracks) = 0 THEN rewound
     ELSE [rewound EXCEPT
             !.gpxData = [loaded |-> TRUE, tracks |-> parsedData.tracks,
                          bounds |-> parsedData.bounds,
                          hasPhotos |-> FALSE, photos |-> <<>>],
             !.timers = Supersede(@)]

UploadState(s, doc) ==
  LET parsedData == parseGPX(doc)
  IN IF parsedData.threw \/ Len(parsedData.tracks) = 0 THEN s
     ELSE [s EXCEPT
             !.gpxData = [loaded |-> TRUE, tracks |-> parsedData.tracks,
                          bounds |-> parsedData.bounds,
                          hasPhotos |-> FALSE, photos |-> <<>>],
             !.currentPosition = 0,
             !.isPlaying = FALSE,
             !.timers = Supersede(@)]

handleFileUpload(doc) ==
  /\ Settled
  /\ ~isAutoPhotoOpen
  /\ LET s1 == UploadState(Cur, doc)
     IN Install(s1, IF UploadAccepted(doc) THEN "upload" ELSE "rejected",
                Changed(Cur, s1, IF UploadAccepted(doc) THEN {"gpxData"} ELSE {}))

PlayPauseState(s) ==
  IF ~s.isPlaying
  THEN [s EXCEPT
          !.startTime = <<now - (s.currentPosition * animationDuration) \div 100>>,
          !.isPlaying = TRUE]
  ELSE [s EXCEPT !.isPlaying = FALSE]

handlePlayPause ==
  /\ Settled
  /\ ControlsUsable
  /\ isPlaying \/ TimerRoom
  /\ LET s1 == PlayPauseState(Cur)
     IN Install(s1, IF isPlaying THEN "pause" ELSE "play", Changed(Cur, s1, {}))

(* a reset that keeps the session set *)
ResetStateMutant(s) ==
  [s EXCEPT !.currentPosition = 0, !.isPlaying = FALSE, !.startTime = <<>>,
            !.firedEvents = <<>>, !.passedOver = {}, !.timers = Supersede(@)]

ResetState(s) ==
  [s EXCEPT !.currentPosition = 0, !.isPlaying = FALSE, !.startTime = <<>>,
            !.shownPhotosInSession = {}, !.firedEvents = <<>>, !.passedOver = {},
            !.timers = Supersede(@)]

handleReset ==
  /\ Settled
  /\ ControlsUsable
  /\ LET s1 == ResetState(Cur)
     IN Install(s1, "reset", Changed(Cur, s1, {"shownPhotosInSession"}))

PositionChangeState(s, position) ==
  IF s.isPlaying
  THEN [s EXCEPT
          !.currentPosition = position,
          !.startTime = <<now - (position * animationDuration) \div 100>>]
  ELSE [s EXCEPT !.currentPosition = position]

handlePositionChange(pointer) ==
  /\ Settled
  /\ ControlsUsable
  /\ ~isPlaying \/ TimerRoom
  /\ LET s1 == PositionChangeState(Cur, SliderValue(pointer))
     IN Install(s1, "seek", Changed(Cur, s1, {}))

(* TrailMap.handlePhotoSave and the onPhotosUpdate callback of Index; the
   id is the decimal string of Date.now(), written as the number: two saves
   between which the clock reading does not change get the same id *)
PhotoSaveState(s, coord) ==
  LET newPhoto == [id |-> now, lat |-> coord[1], lon |-> coord[2]]
      updatedPhotos == Append(s.photos, newPhoto)
  IN [s EXCEPT
        !.photos = updatedPhotos,
        !.gpxData = IF s.gpxData.loaded
                    THEN [s.gpxData EXCEPT !.hasPhotos = TRUE, !.photos = updatedPhotos]
                    ELSE s.gpxData]

handlePhotoSave ==
  /\ Settled
  /\ ControlsUsable
  /\ ~isPlaying \/ TimerRoom
  /\ Len(photos) < Len(PhotoClicks)
  /\ LET s1 == PhotoSaveState(Cur, PhotoClicks[Len(photos) + 1])
     IN Install(s1, "photo", Changed(Cur, s1, {"gpxData"}))

(* onClose of the auto photo dialog *)
CloseState(s) == [s EXCEPT !.isAutoPhotoOpen = FALSE, !.autoPhotoView = <<>>]

onClose ==
  /\ Settled
  /\ isAutoPhotoOpen
  /\ Install(CloseState(Cur), "close", {})

----------------------------------------------------------------------------
(* Callbacks *)

(* an animate() that never stops the driver *)
AnimateStateMutant(s, frame) ==
  [s EXCEPT !.rafPending = @ \ {frame}, !.currentPosition = Progress(frame.startTime)]

(* animate(), called for a pending frame request *)
AnimateState(s, frame) ==
  LET progress == Progress(frame.startTime)
      s1 == [s EXCEPT !.rafPending = @ \ {frame}, !.currentPosition = progress]
  IN IF progress >= 100
     THEN [s1 EXCEPT !.isPlaying = FALSE, !.startTime = <<>>]
     ELSE s1

Tick(frame) ==
  /\ Settled
  /\ frame \in rafPending
  /\ TimerRoom
  /\ LET s1 == AnimateState(Cur, frame)
     IN Install(s1, "tick", Changed(Cur, s1, {}))

(* the setTimeout callback of the photo trigger effect; timers of one delay
   run in the order they were set *)
ResumeState(s, timer) ==
  [s EXCEPT
     !.isAutoPhotoOpen = FALSE,
     !.autoPhotoView = <<>>,
     !.startTime = <<now - (timer.currentPosition * animationDuration) \div 100>>,
     !.isPlaying = TRUE,
     !.timers = Tail(@)]

AutoResume ==
  /\ Settled
  /\ timers # <<>>
  /\ now >= Head(timers).due
  /\ LET s1 == ResumeState(Cur, Head(timers))
     IN Install(s1, "resume", Changed(Cur, s1, {}))

(* one render of Index with its effects *)
Render ==
  /\ ~Settled
  /\ \E s1 \in {PassState(Cur, pending)} :
       Install(s1, "render", PassChanged(Cur, pending))

(* Date.now() moves on by one frame *)
Advance ==
  /\ Settled
  /\ now + FrameMs <= Epoch + MaxClockSteps * FrameMs
  /\ now' = now + FrameMs
  /\ UNCHANGED <<gpxData, isPlaying, currentPosition, startTime, autoPhotoView,
                 isAutoPhotoOpen, shownPhotosInSession, photoPositions, photos,
                 rafPending, animationFrame, timers, firedEvents, passedOver,
                 virtualStart,
                 pending, mapVars>>

----------------------------------------------------------------------------

Init ==
  /\ gpxData = NoData
  /\ isPlaying = FALSE
  /\ currentPosition = 0
  /\ startTime = <<>>
  /\ autoPhotoView = <<>>
  /\ isAutoPhotoOpen = FALSE
  /\ shownPhotosInSession = {}
  /\ photoPositions = <<>>
  /\ photos = <<>>
  /\ now = Epoch
  /\ rafPending = {}
  /\ animationFrame = <<>>
  /\ timers = <<>>
  /\ firedEvents = <<>>
  /\ passedOver = {}
  /\ virtualStart = <<>>
  /\ pending = {}
  /\ InitTrailMap

Next ==
  \/ \E doc \in Docs : handleFileUpload(doc)
  \/ handlePlayPause
  \/ handleReset
  \/ \E pointer \in SliderPointer : handlePositionChange(pointer)
  \/ handlePhotoSave
  \/ onClose
  \/ \E frame \in rafPending : Tick(frame)
  \/ AutoResume
  \/ Render
  \/ Advance

Spec == Init /\ [][Next]_vars

TypeOK ==
  /\ isPlaying \in BOOLEAN
  /\ currentPosition \in Int
  /\ Len(startTime) <= 1
  /\ Len(photos) <= Len(PhotoClicks)
  /\ Len(timers) <= MaxTimers

----------------------------------------------------------------------------
(* The photo positions effect on its own: a loaded track with up to
   MaxDerivePhotos photos, saved in any order at the places of DeriveCoords
   (the id is the rank of the save), and the render that derives the list *)

(* the first point of DocNaN2 has a latitude that is not a number *)
DocNaN2 ==
  [gpx |-> TRUE,
   trk |-> <<Trk(<<<<[lat |-> <<OtherText>>, lon |-> <<NumberText(1)>>, ele |-> <<>>,
                      time |-> <<>>],
                     Pt(3, 3)>>>>)>>]

DeriveDocs == {DocLine3, DocLine5, DocLine51, DocPoint1, DocNaN2}

DeriveCoords == {<<-5, 0>>, <<2, 0>>, <<3, 0>>, <<30, 1>>}

DerivePhotos(coords) ==
  [k \in 1..Len(coords) |-> [id |-> k, lat |-> coords[k][1], lon |-> coords[k][2]]]

DeriveInputs ==
  UNION {{DerivePhotos(coords) : coords \in [1..n -> DeriveCoords]} : n \in 0..MaxDerivePhotos}

InitDerive ==
  /\ \E doc \in DeriveDocs, saved \in DeriveInputs :
       /\ gpxData = [loaded |-> TRUE, tracks |-> parseGPX(doc).tracks,
                     bounds |-> parseGPX(doc).bounds,
                     hasPhotos |-> TRUE, photos |-> saved]
       /\ photos = saved
  /\ isPlaying = FALSE
  /\ currentPosition = 0
  /\ startTime = <<>>
  /\ autoPhotoView = <<>>
  /\ isAutoPhotoOpen = FALSE
  /\ shownPhotosInSession = {}
  /\ photoPositions = <<>>
  /\ now = Epoch
  /\ rafPending = {}
  /\ animationFrame = <<>>
  /\ timers = <<>>
  /\ firedEvents = <<>>
  /\ passedOver = {}
  /\ virtualStart = <<>>
  /\ pending = {"gpxData"}
  /\ InitTrailMap

NextDerive == Render

SpecDerive == InitDerive /\ [][NextDerive]_vars

----------------------------------------------------------------------------
(* Steps, as seen from a pair of states *)

PlayStep == ~isPlaying /\ handlePlayPause

PauseStep == isPlaying /\ handlePlayPause

LoadStep == \E doc \in Docs : UploadAccepted(doc) /\ handleFileUpload(doc)

(* a render in which the photo trigger effect found a photo to show *)
TriggerStep == Render /\ Len(firedEvents') = Len(firedEvents) + 1

NoRepeat(seq) ==
  \A i, j \in 1..Len(seq) : i # j => seq[i] # seq[j]

InBandOfShown ==
  \E k \in 1..Len(photoPositions) :
    /\ photoPositions[k].photo.id \in shownPhotosInSession
    /\ IsAtPosition(Cur, photoPositions[k])

----------------------------------------------------------------------------
(* C1: between two Resets no photo id is triggered twice, whatever the
   sequence of Play, Pause, Seek, Tick and auto-resume, and an id leaves the
   set of shown photos only in a Reset. *)
C1_AtMostOncePerSession ==
  /\ [](NoRepeat(firedEvents))
  /\ [][handleReset \/ shownPhotosInSession \subseteq shownPhotosInSession']_vars

(* the driver plays inside the band of a photo it has already shown *)
C1_Witness == Settled /\ isPlaying /\ InBandOfShown

(* C2: the auto-resume of a trigger that a Reset or a track load has
   superseded does nothing to the driver: it does not start playing and it
   leaves progress and start time alone. *)
C2_StaleResumeCancelled ==
  [][(AutoResume /\ Head(timers).superseded)
       => /\ isPlaying' = isPlaying
          /\ startTime' = startTime
          /\ currentPosition' = currentPosition]_vars

(* C3: a trigger pauses the driver in its own render (isPlaying false, start
   time cleared, progress unchanged, dialog open on the matched photo); and
   when the dialog is still open when a resume timer runs (no user input
   since the trigger), the delay of that trigger has elapsed, the dialog is
   closed and the driver plays from a start time that gives a progress not
   below the frozen one. *)
C3_TriggerPausesThenResumes ==
  [][/\ TriggerStep
          => /\ ~isPlaying'
             /\ startTime' = <<>>
             /\ currentPosition' = currentPosition
             /\ isAutoPhotoOpen'
             /\ autoPhotoView' # <<>>
             /\ autoPhotoView'[1].id = firedEvents'[Len(firedEvents')]
     /\ (AutoResume /\ isAutoPhotoOpen)
          => /\ now >= timers[Len(timers)].due
             /\ ~isAutoPhotoOpen'
             /\ isPlaying'
             /\ startTime' # <<>>
             /\ Progress(startTime'[1]) >= currentPosition]_vars

(* C4: at most one frame request is pending, and none is left once the
   driver has stopped playing and its render is done, so that no frame
   callback runs for a driver that is not playing. *)
C4_OneTickPending ==
  /\ Cardinality(rafPending) <= 1
  /\ (Settled /\ ~isPlaying) => rafPending = {}

(* paused by the user with a frame requested: the request is gone *)
C4_Witness ==
  Settled /\ ~isPlaying /\ startTime # <<>> /\ rafPending = {} /\ currentPosition > 0

(* C5: Play at t0 with progress p sets the start time to t0 - (p/100)*D, and
   every Tick at t of the playthrough that Play started (no Seek, no stop
   since) sets progress to min(100, p + (t - t0)/D*100). *)
C5_TickFollowsPlay ==
  [][/\ PlayStep
          => startTime' = <<now - (currentPosition * animationDuration) \div 100>>
     /\ \A frame \in rafPending :
          (Tick(frame) /\ virtualStart # <<>> /\ virtualStart[1].by = "play")
            => currentPosition' =
                 Min(100, virtualStart[1].p
                          + ((now - virtualStart[1].t0) * 100) \div animationDuration)]_vars

(* C6: progress is within [0,100] in every state. *)
C6_ProgressInRange == currentPosition >= 0 /\ currentPosition <= 100

(* playing at the end of the track: a seek past the end was clamped *)
C6_Witness == Settled /\ isPlaying /\ currentPosition = 100

(* C7: Pause leaves Playing, keeps progress and discards the start time. *)
C7_PauseDiscardsStartTime ==
  [][PauseStep
       => /\ ~isPlaying'
          /\ currentPosition' = currentPosition
          /\ startTime' = <<>>]_vars

(* C8: Seek sets progress to its (clamped) target; while playing it sets the
   start time to now - (target/100)*D and the driver keeps playing, and the
   Tick that follows the Seek (no other Seek, no stop in between) yields a
   progress not below the target; while not playing Seek leaves isPlaying
   and the start time as they are. *)
C8_SeekKeepsPlaying ==
  [][/\ \A pointer \in SliderPointer :
          handlePositionChange(pointer)
            => LET target == SliderValue(pointer)
               IN /\ currentPosition' = target
                  /\ isPlaying' = isPlaying
                  /\ IF isPlaying
                     THEN startTime' = <<now - (target * animationDuration) \div 100>>
                     ELSE startTime' = startTime
     /\ \A frame \in rafPending :
          (Tick(frame) /\ virtualStart # <<>> /\ virtualStart[1].by = "seek")
            => currentPosition' >= virtualStart[1].p]_vars

(* C9: Reset yields progress 0, not playing, no start time and an empty
   session set; and a settled driver never plays inside the band of a photo
   that is not in the session set, so that after a Reset every photo is
   triggered again when the driver reaches it. *)
C9_ResetClearsSession ==
  /\ [][handleReset
          => /\ currentPosition' = 0
             /\ ~isPlaying'
             /\ startTime' = <<>>
             /\ shownPhotosInSession' = {}]_vars
  /\ []((Settled /\ isPlaying) => PhotoToShow(Cur) = 0)

(* the only photo has been triggered again after a Reset, while the timer of
   its trigger before the Reset is still pending *)
C9_Witness ==
  /\ Len(photoPositions) = 1
  /\ Len(firedEvents) = 1
  /\ Len(timers) = 2
  /\ timers[1].superseded
  /\ ~timers[2].superseded

(* C10: a successful load leaves progress 0, not playing, no start time and
   an empty session set, and once rendered the photo positions are the ones
   derived from the loaded data. *)
C10_LoadResetsAnimationState ==
  /\ [][LoadStep
          => /\ currentPosition' = 0
             /\ ~isPlaying'
             /\ startTime' = <<>>
             /\ shownPhotosInSession' = {}]_vars
  /\ [](Settled => photoPositions = DerivePhotoPositions(gpxData))

(* C11: a Tick that computes 100 leaves progress at exactly 100 and stops the
   driver in that step (isPlaying false, start time cleared, no frame
   requested, and none requested by the render that follows); a Seek on the
   stopped driver at 100 still moves progress to its target. *)
C11_StopAtEnd ==
  [][/\ \A frame \in rafPending :
          (Tick(frame) /\ Progress(frame.startTime) >= 100)
            => /\ currentPosition' = 100
               /\ ~isPlaying'
               /\ startTime' = <<>>
               /\ rafPending' = {}
     /\ (Render /\ ~isPlaying /\ currentPosition = 100)
          => (rafPending' = {} /\ currentPosition' = 100 /\ ~isPlaying')
     /\ \A pointer \in SliderPointer :
          (handlePositionChange(pointer) /\ ~isPlaying /\ currentPosition = 100)
            => currentPosition' = SliderValue(pointer)]_vars

(* the step of a Tick that reached 100: stopped, not yet rendered *)
C11_Witness ==
  /\ ~isPlaying
  /\ currentPosition = 100
  /\ startTime = <<>>
  /\ {"isPlaying", "startTime"} \subseteq pending
  /\ ~isAutoPhotoOpen

(* the render that follows a Seek made while playing *)
SeekLanded ==
  /\ isPlaying
  /\ "currentPosition" \in pending
  /\ virtualStart # <<>>
  /\ virtualStart[1] = [t0 |-> now, p |-> currentPosition, by |-> "seek", resumed |-> <<>>]

SeekRender == Render /\ SeekLanded

(* the anchors within the tolerance band of the progress whose id has not
   been shown in this session *)
UnshownInBand ==
  {k \in 1..Len(photoPositions) :
     /\ photoPositions[k].position # <<>>
     /\ currentPosition - photoPositions[k].position[1] <= tolerance
     /\ photoPositions[k].position[1] - currentPosition <= tolerance
     /\ photoPositions[k].photo.id \notin shownPhotosInSession}

(* C12: the render of a Seek made while playing triggers once, for an anchor
   in the band of the target that has not been shown (exactly that one when
   it is alone), when there is such an anchor; otherwise - the band is empty
   or holds only anchors already shown, as after a Seek backward - it
   triggers nothing. No id is triggered twice in a session. *)
C12_SeekTriggersOnce ==
  /\ [][SeekRender
          => IF UnshownInBand # {}
             THEN /\ Len(firedEvents') = Len(firedEvents) + 1
                  /\ \E k \in UnshownInBand :
                       firedEvents'[Len(firedEvents')] = photoPositions[k].photo.id
                  /\ firedEvents'[Len(firedEvents')] \notin shownPhotosInSession
             ELSE /\ firedEvents' = firedEvents
                  /\ isPlaying'
                  /\ ~isAutoPhotoOpen']_vars
  /\ [](\A i, j \in 1..Len(firedEvents) : firedEvents[i] = firedEvents[j] => i = j)

(* a Seek while playing has landed in a band that holds an anchor already
   shown and one not shown yet; its render is next *)
C12_Witness ==
  /\ SeekLanded
  /\ InBandOfShown
  /\ UnshownInBand # {}

(* the first anchor of the list among those of UnshownInBand *)
FirstUnshownInBand == CHOOSE k \in UnshownInBand : \A j \in UnshownInBand : k <= j

(* C13: the list of triggered ids grows only in a render made while playing,
   by one id per render, and that id belongs to an anchor within the
   tolerance of the progress whose id was not in the session set: of the
   anchors that qualify, the first in the list, which no qualifying anchor
   precedes in position. *)
C13_TriggerConditions ==
  [][firedEvents' # firedEvents
       => \/ handleReset /\ firedEvents' = <<>>
          \/ /\ Render
             /\ isPlaying
             /\ UnshownInBand # {}
             /\ firedEvents' = Append(firedEvents, photoPositions[FirstUnshownInBand].photo.id)
             /\ autoPhotoView' = <<photoPositions[FirstUnshownInBand].photo>>
             /\ shownPhotosInSession' =
                  shownPhotosInSession \cup {photoPositions[FirstUnshownInBand].photo.id}
             /\ \A j \in UnshownInBand :
                  photoPositions[FirstUnshownInBand].position[1] <= photoPositions[j].position[1]]_vars

(* the first of two anchors that matched at the same progress is on show,
   the other is still unshown *)
C13_Witness ==
  /\ isAutoPhotoOpen
  /\ Len(photoPositions) = 2
  /\ photoPositions[1].photo.id # photoPositions[2].photo.id
  /\ firedEvents = <<photoPositions[1].photo.id>>
  /\ UnshownInBand = {2}

(* an evaluation of the trigger effect in which two or more unshown anchors
   are within the tolerance of the progress *)
SeveralMatchRender ==
  /\ Render
  /\ isPlaying
  /\ RunsTrigger(pending)
  /\ Cardinality(UnshownInBand) >= 2

(* C14 as claimed: of several unshown anchors in the band only the first is
   presented, and an anchor passed over in such an evaluation is not
   presented for the rest of the session. *)
C14_OthersSkipped ==
  [][/\ SeveralMatchRender
          => firedEvents' = Append(firedEvents, photoPositions[FirstUnshownInBand].photo.id)
     /\ TriggerStep
          => firedEvents'[Len(firedEvents')] \notin passedOver]_vars

(* C14 as amended: of several unshown anchors in the band one evaluation
   presents only the first and leaves the others unshown; they are not
   skipped: the render in which the driver plays again finds the next
   unshown anchor of the band and presents it. *)
C14_OthersFollow ==
  [][/\ SeveralMatchRender
          => /\ firedEvents' = Append(firedEvents, photoPositions[FirstUnshownInBand].photo.id)
             /\ \A j \in UnshownInBand :
                  photoPositions[j].photo.id # photoPositions[FirstUnshownInBand].photo.id
                    => photoPositions[j].photo.id \notin shownPhotosInSession'
     /\ (Render /\ isPlaying /\ "isPlaying" \in pending /\ UnshownInBand # {})
          => /\ firedEvents' = Append(firedEvents, photoPositions[FirstUnshownInBand].photo.id)
             /\ isAutoPhotoOpen'
             /\ ~isPlaying']_vars

(* an anchor that was passed over is on show *)
C14_Witness ==
  /\ isAutoPhotoOpen
  /\ autoPhotoView # <<>>
  /\ autoPhotoView[1].id \in passedOver
  /\ Len(firedEvents) = 2
  /\ firedEvents[1] # firedEvents[2]

(* the first track has fewer than two points, or there is no photo *)
EngineInert ==
  /\ gpxData.loaded
  /\ \/ Len(gpxData.tracks[1].points) < 2
     \/ ~gpxData.hasPhotos
     \/ Len(gpxData.photos) = 0

(* C15: with a first track of fewer than two points, or without photos, no
   render presents a photo or stops the driver, whatever Play, Seek and Tick
   did before it; the positions derived on a single point are NaN, which
   no comparison matches, and nothing is thrown. *)
C15_EngineInert ==
  /\ [][(Render /\ EngineInert)
          => /\ firedEvents' = firedEvents
             /\ isAutoPhotoOpen' = isAutoPhotoOpen
             /\ autoPhotoView' = autoPhotoView
             /\ isPlaying' = isPlaying
             /\ shownPhotosInSession' = shownPhotosInSession
             /\ timers' = timers]_vars
  /\ []((Settled /\ gpxData.loaded /\ Len(gpxData.tracks[1].points) < 2)
          => \A k \in 1..Len(photoPositions) : photoPositions[k].position = <<>>)

(* playing past the start on a single-point track that has a photo *)
C15_Witness ==
  /\ Settled
  /\ isPlaying
  /\ currentPosition > 0
  /\ gpxData.loaded
  /\ Len(gpxData.tracks[1].points) = 1
  /\ Len(photoPositions) >= 1

(* the photos the positions effect reads *)
AnchorsOfData == IF gpxData.hasPhotos THEN gpxData.photos ELSE <<>>

(* C16: once rendered, the list has one entry per photo of the data, each
   photo in exactly one entry; on a track of two or more points every
   position is a number in [0,100] and the list ascends in position, and
   entries of equal position (or of no position, on a single point) keep
   the order in which the photos were saved. *)
C16_DerivedListSorted ==
  Settled =>
    /\ Len(photoPositions) = Len(AnchorsOfData)
    /\ \A i \in 1..Len(AnchorsOfData) :
         Cardinality({k \in 1..Len(photoPositions) :
                        photoPositions[k].photo = AnchorsOfData[i]}) = 1
    /\ Len(gpxData.tracks[1].points) >= 2
         => \A k \in 1..Len(photoPositions) :
              /\ photoPositions[k].position # <<>>
              /\ photoPositions[k].position[1] >= 0
              /\ photoPositions[k].position[1] <= 100
              /\ \A l \in (k + 1)..Len(photoPositions) :
                   photoPositions[k].position[1] <= photoPositions[l].position[1]
    /\ \A k \in 1..Len(photoPositions) : \A l \in (k + 1)..Len(photoPositions) :
         photoPositions[k].position = photoPositions[l].position
           => photoPositions[k].photo.id < photoPositions[l].photo.id

(* a derived list of three photos in which the sort moved the last saved
   photo to the front and left two photos of equal position in their order *)
C16_Witness ==
  /\ Settled
  /\ Len(photoPositions) = 3
  /\ photoPositions[1].photo.id = 3
  /\ photoPositions[2].position = photoPositions[3].position
  /\ photoPositions[2].position # <<>>
  /\ photoPositions[1].position # photoPositions[2].position

(* the documents the parser throws on and those it finds no track in *)
RejectedDocs == {doc \in Docs : parseGPX(doc).threw \/ Len(parseGPX(doc).tracks) = 0}

(* C17: an upload whose parse throws (no gpx root) or yields no track (no
   point with coordinates) shows an error toast and changes neither the
   track data nor progress, isPlaying, start time, session set or photo
   positions, and leaves nothing to render. *)
C17_FailedUploadKeepsState ==
  /\ [][\A doc \in RejectedDocs :
          handleFileUpload(doc)
            => /\ UploadToast(doc).kind = "error"
               /\ gpxData' = gpxData
               /\ currentPosition' = currentPosition
               /\ isPlaying' = isPlaying
               /\ startTime' = startTime
               /\ shownPhotosInSession' = shownPhotosInSession
               /\ photoPositions' = photoPositions
               /\ pending' = {}]_vars
  /\ [](DocNoRoot \in RejectedDocs /\ DocNoCoords \in RejectedDocs)

(* a file can be uploaded while the driver plays past the start on a loaded
   track with a photo already shown: a rejected upload leaves this state *)
C17_Witness ==
  /\ Settled
  /\ ~isAutoPhotoOpen
  /\ gpxData.loaded
  /\ isPlaying
  /\ startTime # <<>>
  /\ currentPosition > 0
  /\ shownPhotosInSession # {}


----------------------------------------------------------------------------
(* The parser and the upload handler on their own: documents of one and of
   two tracks built from the segments of ParseSegs, one document of a
   track with two segments, one without a gpx root *)

LatOnlyPt(la) ==
  [lat |-> <<NumberText(la)>>, lon |-> <<>>, ele |-> <<>>, time |-> <<>>]

OtherTextPt(lo) ==
  [lat |-> <<OtherText>>, lon |-> <<NumberText(lo)>>, ele |-> <<>>, time |-> <<>>]

(* a point whose ele child is empty or is not a number *)
OtherElePt(la, lo) ==
  [lat |-> <<NumberText(la)>>, lon |-> <<NumberText(lo)>>, ele |-> <<OtherText>>,
   time |-> <<>>]

ParseSegs ==
  {<<>>,
   <<NoCoordPt>>,
   <<Pt(0, 0)>>,
   <<Pt(7, 0)>>,
   <<Pt(0, 0), Pt(2, 1)>>,
   <<Pt(5, 5), Pt(-1, -1)>>,
   <<NoCoordPt, Pt(-3, 5)>>,
   <<Pt(4, -2), NoCoordPt, Pt(1, 1)>>,
   <<LatOnlyPt(1), Pt(2, 2)>>,
   <<PtEle(1, 2, 300), PtTime(2, 3, "2024-05-01T10:00:00Z"), Pt(3, 4)>>,
   <<PtEle(0, 0, 100), PtEle(0, 1, 150), PtEle(0, 2, 200)>>,
   <<PtEle(0, 0, 200), PtEle(0, 1, 150), PtEle(0, 2, 100)>>,
   <<PtEle(0, 0, 100), Pt(0, 1), PtEle(0, 2, 140), NoCoordPt, PtEle(0, 3, 110)>>,
   <<PtEle(0, 0, 100), OtherElePt(0, 1), PtEle(0, 2, 120)>>,
   <<OtherTextPt(1), Pt(3, 3)>>}

(* a track of two segments, the first of which ends with a point that is
   passed over, and a second track *)
DocTracks2 ==
  [gpx |-> TRUE,
   trk |-> <<Trk(<<<<Pt(0, 0), NoCoordPt>>, <<Pt(1, 1), Pt(2, 2)>>>>),
             Trk(<<<<Pt(9, 9), Pt(8, 8)>>>>)>>]

ParseDocs ==
  {[gpx |-> TRUE, trk |-> <<Trk(<<a>>)>>] : a \in ParseSegs}
  \cup {[gpx |-> TRUE, trk |-> <<Trk(<<a>>), Trk(<<b>>)>>] : a, b \in ParseSegs}
  \cup {DocLine3, DocNoRoot, DocTracks2}

NextParse ==
  \/ \E doc \in ParseDocs : handleFileUpload(doc)
  \/ Render

SpecParse == Init /\ [][NextParse]_vars

(* C18: a TrackSet that is application state has at least one track, every
   track of it has at least one point, and its bounds are the least and the
   greatest latitude and longitude of its points, so that minLat <= maxLat
   and minLon <= maxLon *)
C18_LoadedTrackSet ==
  gpxData.loaded =>
    LET tracks == gpxData.tracks
        bounds == gpxData.bounds
    IN /\ Len(tracks) >= 1
       /\ \A i \in 1..Len(tracks) : Len(tracks[i].points) >= 1
       /\ \A b \in {bounds.minLat, bounds.maxLat, bounds.minLon, bounds.maxLon} :
            Len(b) = 1
       /\ bounds.minLat[1] <= bounds.maxLat[1]
       /\ bounds.minLon[1] <= bounds.maxLon[1]
       /\ \A i \in 1..Len(tracks) : \A k \in 1..Len(tracks[i].points) :
            LET point == tracks[i].points[k]
            IN /\ bounds.minLat[1] <= point.lat[1]
               /\ point.lat[1] <= bounds.maxLat[1]
               /\ bounds.minLon[1] <= point.lon[1]
               /\ point.lon[1] <= bounds.maxLon[1]
       /\ \E i \in 1..Len(tracks) : \E k \in 1..Len(tracks[i].points) :
            tracks[i].points[k].lat = bounds.minLat
       /\ \E i \in 1..Len(tracks) : \E k \in 1..Len(tracks[i].points) :
            tracks[i].points[k].lat = bounds.maxLat
       /\ \E i \in 1..Len(tracks) : \E k \in 1..Len(tracks[i].points) :
            tracks[i].points[k].lon = bounds.minLon
       /\ \E i \in 1..Len(tracks) : \E k \in 1..Len(tracks[i].points) :
            tracks[i].points[k].lon = bounds.maxLon

(* C19: the ids of the photo anchors of the photo set are pairwise distinct,
   after any sequence of photo additions *)
C19_DistinctIds ==
  /\ \A i, j \in 1..Len(photos) : i # j => photos[i].id # photos[j].id
  /\ \A i, j \in 1..Len(gpxData.photos) :
       i # j => gpxData.photos[i].id # gpxData.photos[j].id

----------------------------------------------------------------------------
(* The consumers of the progress: what each of them shows for the current
   state once the render has settled.  Indices are 0-based as in the
   source; the map is taken as initialised *)

(* a marker index taken over the number of points *)
pointIndexMutant(track, position) == (position * Len(track.points)) \div 100

(* TrailMap, marker effect: Math.floor((currentPosition / 100) * (length - 1));
   for whole percents and the track lengths of the model the product of
   doubles has the floor of the exact product *)
pointIndex(track, position) == (position * (Len(track.points) - 1)) \div 100

(* the index of the point the marker is put on, <<>> if the effect returns early *)
MarkerPoint ==
  IF ~gpxData.loaded \/ Len(gpxData.tracks) = 0 THEN <<>>
  ELSE LET track == gpxData.tracks[1]
           index == pointIndex(track, currentPosition)
       IN IF index \in 0..(Len(track.points) - 1) THEN <<index>> ELSE <<>>

(* AnimationControls: its own copy of the expression *)
currentPointIndex(track, position) == (position * (Len(track.points) - 1)) \div 100

(* the index of the point whose coordinates the controls print *)
ControlsPoint ==
  IF ~gpxData.loaded \/ Len(gpxData.tracks) = 0 THEN <<>>
  ELSE LET track == gpxData.tracks[1]
           index == currentPointIndex(track, currentPosition)
       IN IF index \in 0..(Len(track.points) - 1) THEN <<index>> ELSE <<>>

(* ElevationChart: the originalIndex of the entries of chartData, one entry
   for every point that has an elevation, in track order *)
RECURSIVE chartData(_, _)
chartData(points, i) ==
  IF i > Len(points) THEN <<>>
  ELSE (IF points[i].ele # <<>> THEN <<[originalIndex |-> i - 1]>> ELSE <<>>)
       \o chartData(points, i + 1)

(* chartData.find(data => data.originalIndex <= currentPointIndex): the
   first entry that satisfies the test *)
currentChartPoint(data, index) ==
  LET hits == {k \in 1..Len(data) : data[k].originalIndex <= index}
  IN IF hits = {} THEN <<>>
     ELSE <<data[CHOOSE k \in hits : \A h \in hits : k <= h]>>

(* the index of the track point the chart cursor is drawn at *)
ChartPoint ==
  IF ~gpxData.loaded \/ Len(gpxData.tracks) = 0 THEN <<>>
  ELSE LET track == gpxData.tracks[1]
           data == chartData(track.points, 1)
           totalPoints == Len(track.points)
           index == (currentPosition * (totalPoints - 1)) \div 100
           found == currentChartPoint(data, index)
       IN IF found = <<>> THEN <<>> ELSE <<found[1].originalIndex>>

(* C20: for the loaded track and the current progress the map marker and
   the read-out of the controls stand at the track point of index
   floor((percent / 100) * (pointCount - 1)), and so does the cursor of the
   elevation chart when every point of the track has an elevation *)
C20_SameIndex ==
  (Settled /\ gpxData.loaded) =>
    LET points == gpxData.tracks[1].points
        expected == <<(currentPosition * (Len(points) - 1)) \div 100>>
    IN /\ MarkerPoint = expected
       /\ ControlsPoint = expected
       /\ (\A k \in 1..Len(points) : points[k].ele # <<>>) => ChartPoint = expected

----------------------------------------------------------------------------
(* The percent to index mapping on its own: a loaded track of 2 to
   MaxIndexPoints points and a slider that is dragged to every whole
   percent, and past both ends *)

IndexDoc(n) == [gpx |-> TRUE, trk |-> <<Trk(<<[k \in 1..n |-> Pt(k, 0)]>>)>>]

IndexDocs == {IndexDoc(n) : n \in 2..MaxIndexPoints}

IndexPointers == (sliderMin - 1)..(sliderMax + 1)

InitIndex ==
  /\ \E doc \in IndexDocs :
       gpxData = [loaded |-> TRUE, tracks |-> parseGPX(doc).tracks,
                  bounds |-> parseGPX(doc).bounds,
                  hasPhotos |-> FALSE, photos |-> <<>>]
  /\ photos = <<>>
  /\ isPlaying = FALSE
  /\ currentPosition = 0
  /\ startTime = <<>>
  /\ autoPhotoView = <<>>
  /\ isAutoPhotoOpen = FALSE
  /\ shownPhotosInSession = {}
  /\ photoPositions = <<>>
  /\ now = Epoch
  /\ rafPending = {}
  /\ animationFrame = <<>>
  /\ timers = <<>>
  /\ firedEvents = <<>>
  /\ passedOver = {}
  /\ virtualStart = <<>>
  /\ pending = {"gpxData"}
  /\ InitTrailMap

NextIndex ==
  \/ \E pointer \in IndexPointers : handlePositionChange(pointer)
  \/ Render

SpecIndex == InitIndex /\ [][NextIndex]_vars

(* C21: on a track of N >= 2 points and for a percent in [0, 100] the index
   of the marker and of the controls lies in [0, N - 1], is 0 at 0 percent
   and N - 1 at 100 percent, and does not decrease when the percent grows *)
C21_PercentToIndex ==
  /\ [](LET track == gpxData.tracks[1]
            N == Len(track.points)
        IN (N >= 2 /\ currentPosition \in 0..100) =>
             /\ pointIndex(track, currentPosition) \in 0..(N - 1)
             /\ currentPointIndex(track, currentPosition) \in 0..(N - 1)
             /\ currentPosition = 0 =>
                  /\ pointIndex(track, currentPosition) = 0
                  /\ currentPointIndex(track, currentPosition) = 0
             /\ currentPosition = 100 =>
                  /\ pointIndex(track, currentPosition) = N - 1
                  /\ currentPointIndex(track, currentPosition) = N - 1)
  /\ [][\A pointer \in IndexPointers :
          (handlePositionChange(pointer) /\ currentPosition <= currentPosition')
            => /\ pointIndex(gpxData.tracks[1], currentPosition)
                    <= pointIndex(gpxData.tracks[1], currentPosition')
               /\ currentPointIndex(gpxData.tracks[1], currentPosition)
                    <= currentPointIndex(gpxData.tracks[1], currentPosition')]_vars

(* the slider was dragged to the end of a track of three or more points and
   the marker and the controls stand on the last point *)
C21_Witness ==
  /\ Settled
  /\ Len(gpxData.tracks[1].points) >= 3
  /\ currentPosition = 100
  /\ MarkerPoint = <<Len(gpxData.tracks[1].points) - 1>>
  /\ ControlsPoint = MarkerPoint

----------------------------------------------------------------------------
(* The points of a document and of its parse, side by side *)

RECURSIVE SegmentsTrkpts(_, _)
SegmentsTrkpts(segments, i) ==
  IF i > Len(segments) THEN <<>>
  ELSE segments[i] \o SegmentsTrkpts(segments, i + 1)

(* the trkpt elements of a document in document order *)
RECURSIVE DocTrkpts(_, _)
DocTrkpts(trkArray, i) ==
  IF i > Len(trkArray) THEN <<>>
  ELSE SegmentsTrkpts(trkArray[i].trkseg, 1) \o DocTrkpts(trkArray, i + 1)

(* the points of the tracks of a parse in their order *)
RECURSIVE TracksPoints(_, _)
TracksPoints(tracks, i) ==
  IF i > Len(tracks) THEN <<>>
  ELSE tracks[i].points \o TracksPoints(tracks, i + 1)

(* the GPXPoint of a trkpt: parseFloat of an absent attribute is NaN *)
PointOf(trkpt) ==
  [lat |-> IF trkpt.lat = <<>> THEN NaN ELSE parseFloat(trkpt.lat[1]),
   lon |-> IF trkpt.lon = <<>> THEN NaN ELSE parseFloat(trkpt.lon[1]),
   ele |-> IF trkpt.ele = <<>> THEN <<>> ELSE <<parseFloat(trkpt.ele[1])>>,
   time |-> trkpt.time]

PointsOf(trkpts) == [k \in 1..Len(trkpts) |-> PointOf(trkpts[k])]

LacksBoth(trkpt) == trkpt.lat = <<>> /\ trkpt.lon = <<>>

LacksOne(trkpt) == trkpt.lat = <<>> \/ trkpt.lon = <<>>

(* the points of the tracks are the points of the trkpts kept, in order *)
KeepsTrkpts(tracks, kept) == TracksPoints(tracks, 1) = PointsOf(kept)

(* C22 as stated: the points of the stored parse are the trkpts of the
   document in document order, without those that lack both the latitude
   and the longitude, whether or not they have an elevation or a time *)
C22_DropsIfBothMissing ==
  [][\A doc \in ParseDocs :
       (handleFileUpload(doc) /\ UploadAccepted(doc))
         => KeepsTrkpts(gpxData'.tracks,
                        SelectSeq(DocTrkpts(doc.trk, 1),
                                  LAMBDA trkpt : ~LacksBoth(trkpt)))]_vars

(* C22 amended: the points of the stored parse are the trkpts of the
   document in document order, without those that lack the latitude or the
   longitude, whether or not they have an elevation or a time *)
C22_DropsIfOneMissing ==
  [][\A doc \in ParseDocs :
       (handleFileUpload(doc) /\ UploadAccepted(doc))
         => KeepsTrkpts(gpxData'.tracks,
                        SelectSeq(DocTrkpts(doc.trk, 1),
                                  LAMBDA trkpt : ~LacksOne(trkpt)))]_vars

(* the parse of a document whose first track lost the point that has a
   latitude only and whose second track kept a point with an elevation, a
   point with a time and a point with neither *)
C22_Witness ==
  /\ gpxData.loaded
  /\ Len(gpxData.tracks) = 2
  /\ gpxData.tracks[1].points = PointsOf(<<Pt(2, 2)>>)
  /\ gpxData.tracks[2].points
       = PointsOf(<<PtEle(1, 2, 300), PtTime(2, 3, "2024-05-01T10:00:00Z"), Pt(3, 4)>>)

----------------------------------------------------------------------------
(* The elevations of a track, one after the other *)

(* the elevations of the points that have one, in track order *)
Elevations(points) ==
  LET withElevation == SelectSeq(points, LAMBDA point : point.ele # <<>> /\ point.ele[1] # NaN)
  IN [k \in 1..Len(withElevation) |-> withElevation[k].ele[1][1]]

(* the sum of the rises (sign = 1) or of the falls (sign = -1) between
   neighbours of the list *)
RECURSIVE SumOfChanges(_, _, _)
SumOfChanges(elevations, k, sign) ==
  IF k > Len(elevations) THEN 0
  ELSE Max(0, sign * (elevations[k] - elevations[k - 1]))
       + SumOfChanges(elevations, k + 1, sign)

(* C23: elevationGain is the sum of the rises and elevationLoss the sum of
   the falls between each point with an elevation and the nearest earlier
   point of the track with an elevation; [100, 150, 200] gives 100 and 0,
   [200, 150, 100] gives 0 and 100 *)
C23_ElevationGainLoss ==
  gpxData.loaded =>
    \A i \in 1..Len(gpxData.tracks) :
      LET track == gpxData.tracks[i]
          elevations == Elevations(track.points)
      IN /\ track.elevationGain = <<SumOfChanges(elevations, 2, 1)>>
         /\ track.elevationLoss = <<SumOfChanges(elevations, 2, -1)>>
         /\ elevations = <<100, 150, 200>>
              => (track.elevationGain = <<100>> /\ track.elevationLoss = <<0>>)
         /\ elevations = <<200, 150, 100>>
              => (track.elevationGain = <<0>> /\ track.elevationLoss = <<100>>)

(* C24: the distances added to the totalDistance of a stored track are those
   between each of its points and the point just before it in the track,
   one for every point but the first, whatever the segments the two points
   came from; the points of another track take no part *)
C24_TotalDistance ==
  gpxData.loaded =>
    \A i \in 1..Len(gpxData.tracks) :
      LET track == gpxData.tracks[i]
      IN track.totalDistance = [k \in 1..(Len(track.points) - 1) |-> <<k - 1, k>>]

(* the parse of DocTracks2: the first track has the distance across its
   segment boundary, the second track starts anew *)
C24_Witness ==
  /\ gpxData.loaded
  /\ Len(gpxData.tracks) = 2
  /\ gpxData.tracks[1].points = PointsOf(<<Pt(0, 0), Pt(1, 1), Pt(2, 2)>>)
  /\ gpxData.tracks[1].totalDistance = <<<<0, 1>>, <<1, 2>>>>
  /\ gpxData.tracks[2].points = PointsOf(<<Pt(9, 9), Pt(8, 8)>>)
  /\ gpxData.tracks[2].totalDistance = <<<<0, 1>>>>

----------------------------------------------------------------------------
(* a < b on the program's numbers: false if either is NaN *)
LessThan(a, b) == a # NaN /\ b # NaN /\ a[1] < b[1]

(* a and b are numbers and a = b *)
SameNumber(a, b) == a # NaN /\ b # NaN /\ a[1] = b[1]

(* C25: for every photo of the loaded data the search returns the index of
   a point of the first track than which no point of the track is nearer
   to the photo in degree space, and before which no point is equally
   near; the derived list holds the photo at the percent of that index *)
C25_NearestPoint ==
  (Settled /\ gpxData.loaded) =>
    \A j \in 1..Len(gpxData.photos) :
      LET points == gpxData.tracks[1].points
          photo == gpxData.photos[j]
          closestIndex == ClosestIndex(points, photo)
          distance == Dist2(photo, points[closestIndex + 1])
      IN /\ closestIndex \in 0..(Len(points) - 1)
         /\ \A k \in 1..Len(points) : ~LessThan(Dist2(photo, points[k]), distance)
         /\ \A k \in 1..closestIndex : ~SameNumber(Dist2(photo, points[k]), distance)
         /\ \E l \in 1..Len(photoPositions) :
              /\ photoPositions[l].photo = photo
              /\ photoPositions[l].position = IndexToPosition(closestIndex, Len(points))

(* DocLine3 with a photo at (3, 0), as far from the second point as from
   the third: the list holds it at 50 percent, the second point *)
C25_Witness ==
  /\ Settled
  /\ gpxData.loaded
  /\ Len(gpxData.tracks[1].points) = 3
  /\ \E l \in 1..Len(photoPositions) :
       /\ photoPositions[l].photo.lat = 3
       /\ photoPositions[l].photo.lon = 0
       /\ photoPositions[l].position = <<50>>
       /\ Dist2(photoPositions[l].photo, gpxData.tracks[1].points[2])
            = Dist2(photoPositions[l].photo, gpxData.tracks[1].points[3])

----------------------------------------------------------------------------
(* C26: the first Tick after an auto-resume yields a progress that is not
   less than the progress held just before the resume, whatever the user
   did (close and seek, play and pause) while the delay was running *)
C26_ResumeFromCurrent ==
  [][\A frame \in rafPending :
       (Tick(frame) /\ virtualStart # <<>> /\ virtualStart[1].resumed # <<>>)
         => currentPosition' >= virtualStart[1].resumed[1]]_vars

(* the timer that runs next was set by an earlier trigger than the photo
   dialog that is open, and the timer of that dialog is not due yet *)
EarlierTimerDue ==
  /\ Len(timers) >= 2
  /\ now >= Head(timers).due
  /\ now < timers[Len(timers)].due
  /\ isAutoPhotoOpen

(* C27: the timer of an earlier trigger that runs while the photo of a later
   trigger is presented, before the delay of the later one has elapsed,
   leaves that presentation open and the driver as it is (paused, without
   a start time taken from the earlier anchor's position) *)
C27_TimerOwnTrigger ==
  [][(AutoResume /\ EarlierTimerDue)
       => /\ isAutoPhotoOpen'
          /\ autoPhotoView' = autoPhotoView
          /\ isPlaying' = isPlaying
          /\ startTime' = startTime]_vars

----------------------------------------------------------------------------
(* One playthrough without further input: a loaded track with its photos,
   Play pressed once at progress 0, and from then on only renders, frame
   callbacks, timer callbacks and the clock *)

LiveDocs == {DocLine3, DocLine5}

InitLive ==
  /\ \E doc \in LiveDocs, saved \in DeriveInputs :
       /\ gpxData = [loaded |-> TRUE, tracks |-> parseGPX(doc).tracks,
                     bounds |-> parseGPX(doc).bounds,
                     hasPhotos |-> TRUE, photos |-> saved]
       /\ photos = saved
  /\ isPlaying = FALSE
  /\ currentPosition = 0
  /\ startTime = <<>>
  /\ autoPhotoView = <<>>
  /\ isAutoPhotoOpen = FALSE
  /\ shownPhotosInSession = {}
  /\ photoPositions = <<>>
  /\ now = Epoch
  /\ rafPending = {}
  /\ animationFrame = <<>>
  /\ timers = <<>>
  /\ firedEvents = <<>>
  /\ passedOver = {}
  /\ virtualStart = <<>>
  /\ pending = {"gpxData"}
  /\ InitTrailMap

(* the first Play of the session *)
PlayOnce ==
  /\ ~isPlaying
  /\ currentPosition = 0
  /\ firedEvents = <<>>
  /\ handlePlayPause

(* a callback is waiting for the clock: a requested frame that would not
   yet compute the end of the track, or a timer that is not due *)
WaitsForClock ==
  \/ \E frame \in rafPending : Progress(frame.startTime) < 100
  \/ timers # <<>> /\ now < Head(timers).due

(* Date.now() moves on by one frame while a callback waits for it *)
AdvanceLive ==
  /\ Settled
  /\ WaitsForClock
  /\ now' = now + FrameMs
  /\ UNCHANGED <<gpxData, isPlaying, currentPosition, startTime, autoPhotoView,
                 isAutoPhotoOpen, shownPhotosInSession, photoPositions, photos,
                 rafPending, animationFrame, timers, firedEvents, passedOver,
                 virtualStart,
                 pending, mapVars>>

NextLive ==
  \/ PlayOnce
  \/ \E frame \in rafPending : Tick(frame)
  \/ AutoResume
  \/ Render
  \/ AdvanceLive

(* renders, requested frames and set timers eventually run, and the clock
   advances *)
SpecLive ==
  /\ InitLive
  /\ [][NextLive]_vars
  /\ WF_vars(Render)
  /\ WF_vars(\E frame \in rafPending : Tick(frame))
  /\ WF_vars(AutoResume)
  /\ WF_vars(AdvanceLive)

(* C28: once Play has been invoked and no further input is given, the
   animation eventually reaches progress 100 and stops, whatever photos the
   track has *)
C28_ReachesEnd ==
  isPlaying ~> (currentPosition = 100 /\ ~isPlaying)

(* C29: once every pending effect has run, the photo list of the map
   component is the photo list of the loaded track set (the empty list when
   the track set has none) *)
C29_MapPhotosOfTrackSet ==
  (Settled /\ gpxData.loaded) => photos = AnchorsOfData

----------------------------------------------------------------------------
(* The photo arrival logic of TrailMap on its own: a loaded track with
   photos, the currentPosition prop set by the parent, the arrival effect,
   the setTimeout callback that opens the photo modal, and its onClose *)

(* defaultSettings.threshold is 0.01 degree: one hundredth *)
thresholdHundredths == 1

(* a further arrival of every photo would put more timers in flight than
   the model holds *)
MaxModalTimers == 4

ArrivalRoom == Len(modalTimers) + Len(photos) <= MaxModalTimers

(* Math.abs(photo.lat - point.lat) < threshold, false for NaN *)
WithinThreshold(a, b) == b # NaN /\ Abs(a - b[1]) * 100 < thresholdHundredths

(* the test of the forEach, on the isPhotoViewOpen and activePhotoId of the
   render the effect belongs to *)
Arrived(photo, point) ==
  /\ WithinThreshold(photo.lat, point.lat)
  /\ WithinThreshold(photo.lon, point.lon)
  /\ ~isPhotoViewOpen
  /\ activePhotoId = <<>>

MapCur ==
  [activePhotoId |-> activePhotoId, modalTimers |-> modalTimers,
   arrivals |-> arrivals]

(* handleArrivedPhoto: the fly-to and the setTimeout, unless the style of
   the map is not loaded *)
handleArrivedPhoto(st, photo, isStyleLoaded) ==
  IF ~isStyleLoaded THEN st
  ELSE [st EXCEPT !.modalTimers = Append(@, photo),
                  !.arrivals = Append(@, photo.id)]

RECURSIVE ForEachPhoto(_, _, _, _)
ForEachPhoto(st, point, isStyleLoaded, i) ==
  IF i > Len(photos) THEN st
  ELSE ForEachPhoto(IF Arrived(photos[i], point)
                    THEN handleArrivedPhoto([st EXCEPT !.activePhotoId = <<photos[i].id>>],
                                            photos[i], isStyleLoaded)
                    ELSE st,
                    point, isStyleLoaded, i + 1)

(* the early returns of the arrival effect, then its forEach *)
ArrivalState(isStyleLoaded) ==
  IF ~gpxData.loaded \/ Len(gpxData.tracks) = 0 \/ Len(photos) = 0 THEN MapCur
  ELSE LET track == gpxData.tracks[1]
           index == pointIndex(track, currentPosition)
       IN IF index + 1 \notin 1..Len(track.points) THEN MapCur
          ELSE ForEachPhoto(MapCur, track.points[index + 1], isStyleLoaded, 1)

indexVars ==
  <<isPlaying, startTime, autoPhotoView, isAutoPhotoOpen, shownPhotosInSession,
    photoPositions, now, rafPending, animationFrame, timers, firedEvents,
    passedOver, virtualStart, pending>>

ArrivalEffect ==
  /\ arrivalDue
  /\ \E isStyleLoaded \in BOOLEAN :
       LET st == ArrivalState(isStyleLoaded)
       IN /\ activePhotoId' = st.activePhotoId
          /\ modalTimers' = st.modalTimers
          /\ arrivals' = st.arrivals
          /\ arrivalDue' = (st.activePhotoId # activePhotoId)
  /\ UNCHANGED <<isPhotoViewOpen, viewPhoto, gpxData, photos, currentPosition, indexVars>>

(* the setTimeout callback of handleArrivedPhoto; timers of one delay run
   in the order they were set *)
ModalTimer ==
  /\ ~arrivalDue
  /\ modalTimers # <<>>
  /\ viewPhoto' = <<Head(modalTimers)>>
  /\ isPhotoViewOpen' = TRUE
  /\ modalTimers' = Tail(modalTimers)
  /\ arrivalDue' = ~isPhotoViewOpen
  /\ UNCHANGED <<activePhotoId, arrivals, gpxData, photos, currentPosition, indexVars>>

(* onClose of the PhotoViewModal *)
handlePhotoClose ==
  /\ ~arrivalDue
  /\ isPhotoViewOpen
  /\ ArrivalRoom
  /\ isPhotoViewOpen' = FALSE
  /\ viewPhoto' = <<>>
  /\ activePhotoId' = <<>>
  /\ arrivals' = <<>>
  /\ arrivalDue' = TRUE
  /\ UNCHANGED <<modalTimers, gpxData, photos, currentPosition, indexVars>>

ArrivalPositions == {0, 50, 100}

(* the parent renders TrailMap with another currentPosition *)
PositionProp(position) ==
  /\ ~arrivalDue
  /\ position # currentPosition
  /\ ArrivalRoom
  /\ currentPosition' = position
  /\ arrivalDue' = TRUE
  /\ UNCHANGED <<activePhotoId, isPhotoViewOpen, viewPhoto, modalTimers, arrivals,
                 gpxData, photos, indexVars>>

ArrivalDocs == {DocLine3, DocPoint1, DocNaN2}

InitArrival ==
  /\ \E doc \in ArrivalDocs, saved \in DeriveInputs :
       /\ gpxData = [loaded |-> TRUE, tracks |-> parseGPX(doc).tracks,
                     bounds |-> parseGPX(doc).bounds,
                     hasPhotos |-> TRUE, photos |-> saved]
       /\ photos = saved
  /\ isPlaying = FALSE
  /\ currentPosition = 0
  /\ startTime = <<>>
  /\ autoPhotoView = <<>>
  /\ isAutoPhotoOpen = FALSE
  /\ shownPhotosInSession = {}
  /\ photoPositions = <<>>
  /\ now = Epoch
  /\ rafPending = {}
  /\ animationFrame = <<>>
  /\ timers = <<>>
  /\ firedEvents = <<>>
  /\ passedOver = {}
  /\ virtualStart = <<>>
  /\ pending = {}
  /\ activePhotoId = <<>>
  /\ isPhotoViewOpen = FALSE
  /\ viewPhoto = <<>>
  /\ modalTimers = <<>>
  /\ arrivals = <<>>
  /\ arrivalDue = TRUE

NextArrival ==
  \/ \E position \in ArrivalPositions : PositionProp(position)
  \/ ArrivalEffect
  \/ ModalTimer
  \/ handlePhotoClose

(* effects run after their render; a set timer eventually runs, however
   often the parent renders in between *)
SpecArrival ==
  /\ InitArrival
  /\ [][NextArrival]_vars
  /\ WF_vars(ArrivalEffect)
  /\ SF_vars(ModalTimer)

(* C30: at most one photo arrival is in progress at any time: an arrival is
   started only when no photo modal is open and activePhotoId is null, none
   is started for a second photo before handlePhotoClose has run for the
   first, and once activePhotoId is set the photo modal eventually opens *)
C30_OneArrival ==
  /\ [](Len(arrivals) <= 1)
  /\ [][(ArrivalEffect /\ arrivals' # arrivals)
          => (~isPhotoViewOpen /\ activePhotoId = <<>>)]_vars
  /\ (activePhotoId # <<>>) ~> isPhotoViewOpen

====
